---- MODULE Spec2Model ----
(***************************************************************************)
(* Healthcare risk assessment: the keyword rule scorer, the risk model     *)
(* judge, score fusion (RiskScorer), document chunking (chunk_text) and    *)
(* the retrieval-augmented recommender (RAGRecommender), as driven by      *)
(* ConversationAnalyzer.analyze_conversation.                              *)
(*                                                                         *)
(* Scores are fixed-point numbers in units of 1/10000: 0.7 is 7000, 1.0 is *)
(* 10000.  A blend 0.4*r + 0.6*m is held in units of 1/100000 (4*r + 6*m). *)
(***************************************************************************)
EXTENDS Integers, Sequences, FiniteSets, TLC

VARIABLES
    rb,               \* rule_based_score call: [text, dom, ret]
    ct,               \* chunk_text call: [text, chunk_size, overlap, ret]
    api_key,          \* config.OPENAI_API_KEY is non-empty
    pc,               \* position of the running analysis
    conv,             \* conversation['full_text'] of the running analysis
    rule,             \* rule-based results of both domains
    llm,              \* judge assessments of both domains (hiv_llm, mh_llm)
    risk_scores,      \* value returned by hybrid_score
    recommendations,  \* value returned by generate_recommendation
    api_calls,        \* chat.completions.create calls made by the running analysis
    queries,          \* retrieve_relevant_chunks calls made by the running analysis
    pdf,              \* the guidelines document on disk (environment)
    chunks,           \* RAGRecommender.chunks
    index,            \* RAGRecommender.index
    context,          \* hiv_context and mh_context of the running generate_recommendation
    hits              \* results returned by retrieve_relevant_chunks calls so far

vars == <<rb, ct, api_key, pc, conv, rule, llm, risk_scores, recommendations,
          api_calls, queries, pdf, chunks, index, context, hits>>

None == [tag |-> "None"]

Min(a, b) == IF a <= b THEN a ELSE b

Range(s) == {s[i] : i \in DOMAIN s}

----------------------------------------------------------------------------
(* config.py: keyword tiers and symptom patterns of the two risk domains.  *)

HIV_RISK_KEYWORDS ==
    [high   |-> <<"unprotected", "multiple partners", "sti", "sexually transmitted",
                  "injection drug", "needle sharing", "sex work", "recent exposure">>,
     medium |-> <<"partner", "condom", "test", "worried", "concerned", "symptoms">>,
     low    |-> <<"healthy", "monogamous", "protected", "negative test">>]

MENTAL_HEALTH_KEYWORDS ==
    [high   |-> <<"suicide", "self-harm", "hopeless", "worthless", "can't go on",
                  "death wish", "ending it", "severe depression", "psychosis">>,
     medium |-> <<"depressed", "anxious", "stressed", "worried", "can't sleep",
                  "panic", "trauma", "abuse", "isolated", "crying">>,
     low    |-> <<"concerned", "nervous", "tired", "overwhelmed">>]

HIV_SYMPTOM_PATTERNS ==
    <<"fever", "night sweats", "weight loss", "fatigue", "swollen glands",
      "rash", "sore throat", "muscle aches", "genital sores", "discharge">>

MH_SYMPTOM_PATTERNS ==
    <<"sad", "hopeless", "anxious", "panic", "can't focus", "irritable",
      "mood swings", "hearing voices", "paranoid", "flashbacks">>

Domains == {"HIV", "MH"}

KeywordsOf(dom) == IF dom = "HIV" THEN HIV_RISK_KEYWORDS ELSE MENTAL_HEALTH_KEYWORDS

SymptomsOf(dom) == IF dom = "HIV" THEN HIV_SYMPTOM_PATTERNS ELSE MH_SYMPTOM_PATTERNS

----------------------------------------------------------------------------
(* A conversation text, as far as substring matching sees it: the set of   *)
(* phrase occurrences it contains, each written in lower or in upper case. *)

Occ(phrase, upper) == [p |-> phrase, up |-> upper]

\* str.lower(): every occurrence becomes its lower-case form.
Lower(text) == {Occ(o.p, FALSE) : o \in text}

\* kw in text_lower: the keyword (lower case in config.py) occurs literally.
Contains(text_lower, kw) == Occ(kw, FALSE) \in text_lower

\* [kw for kw in lst if kw in text_lower]
Matches(lst, text_lower) == SelectSeq(lst, LAMBDA kw : Contains(text_lower, kw))

\* The shared threshold function of rule_based_score and hybrid_score.categorize,
\* on a value in units of 1/unit (0.7 is 7 * unit / 10).
Threshold(score, unit) ==
    IF score * 10 >= 7 * unit THEN "HIGH"
    ELSE IF score * 10 >= 4 * unit THEN "MEDIUM"
    ELSE "LOW"

\* A plausible slip: the tiers add up instead of excluding each other.
RuleTierBaseCumulative(high_count, medium_count, low_count) ==
    (IF high_count > 0 THEN 7000 + high_count * 1000 ELSE 0)
    + (IF medium_count > 0 THEN 4000 + medium_count * 500 ELSE 0)
    + (IF low_count > 0 THEN 1000 + low_count * 200 ELSE 0)

\* The if / elif / elif chain of rule_based_score.
RuleTierBase(high_count, medium_count, low_count) ==
    IF high_count > 0 THEN 7000 + high_count * 1000
    ELSE IF medium_count > 0 THEN 4000 + medium_count * 500
    ELSE IF low_count > 0 THEN 1000 + low_count * 200
    ELSE 0

\* The score is a binary floating-point sum.  It is held here as its decimal
\* value in units of 1/10000, with one more bit of it: whether the binary sum
\* lies under that decimal value where 0.4 times it meets a threshold.  That
\* is so for one sum only: 0.7 + 2 * 0.1 is 0.8999999999999999, and 0.1 more
\* is 0.9999999999999999, which the cap at 1.0 leaves as it is.
RuleSumShort(high_count, symptom_count) == high_count = 2 /\ symptom_count = 1

rule_based_score(text, keywords, symptoms) ==
    LET text_lower == Lower(text)
        high    == Matches(keywords.high, text_lower)
        medium  == Matches(keywords.medium, text_lower)
        low     == Matches(keywords.low, text_lower)
        symptom == Matches(symptoms, text_lower)
        base    == RuleTierBase(Len(high), Len(medium), Len(low))
        bonus   == IF Len(symptom) > 0 THEN Min(Len(symptom) * 1000, 3000) ELSE 0
        score   == Min(base + bonus, 10000)
    IN  [score    |-> score,
         short    |-> RuleSumShort(Len(high), Len(symptom)),
         category |-> Threshold(score, 10000),
         details  |-> [high_risk_matches   |-> high,
                       medium_risk_matches |-> medium,
                       low_risk_matches    |-> low,
                       symptom_matches     |-> symptom]]

\* Texts that contain the first h high, m medium, l low and s symptom phrases
\* of a domain, all in one case.
PrefixText(dom, h, m, l, s, upper) ==
    {Occ(KeywordsOf(dom).high[i], upper) : i \in 1..h}
    \cup {Occ(KeywordsOf(dom).medium[i], upper) : i \in 1..m}
    \cup {Occ(KeywordsOf(dom).low[i], upper) : i \in 1..l}
    \cup {Occ(SymptomsOf(dom)[i], upper) : i \in 1..s}

RuleTexts(dom) ==
    {PrefixText(dom, h, m, l, s, upper) :
        h \in 0..Len(KeywordsOf(dom).high), m \in 0..Len(KeywordsOf(dom).medium),
        l \in 0..Len(KeywordsOf(dom).low), s \in 0..Len(SymptomsOf(dom)),
        upper \in BOOLEAN}

RbIdle == [text |-> {}, dom |-> "HIV", ret |-> None]

CtIdle == [text |-> <<>>, chunk_size |-> 1, overlap |-> 0, ret |-> None]

\* The variables of the analysis pipeline and of the recommender, at rest.
PipelineAtRest ==
    /\ pc = "idle"
    /\ conv = {}
    /\ rule = None
    /\ llm = None
    /\ risk_scores = None
    /\ recommendations = None
    /\ api_calls = 0
    /\ queries = 0
    /\ pdf = <<>>
    /\ chunks = <<>>
    /\ index = None
    /\ context = <<>>
    /\ hits = {}

pipeVars == <<pc, conv, rule, llm, risk_scores, recommendations,
              api_calls, queries, pdf, chunks, index, context, hits>>

----------------------------------------------------------------------------
(* Specification of rule_based_score as a function of its arguments.       *)

InitRule ==
    /\ \E dom \in Domains : \E text \in RuleTexts(dom) :
           rb = [text |-> text, dom |-> dom, ret |-> None]
    /\ ct = CtIdle
    /\ api_key = FALSE
    /\ PipelineAtRest

RuleBasedScore ==
    /\ rb.ret = None
    /\ rb' = [rb EXCEPT !.ret = rule_based_score(rb.text, KeywordsOf(rb.dom),
                                                 SymptomsOf(rb.dom))]
    /\ UNCHANGED <<ct, api_key, pipeVars>>

NextRule == RuleBasedScore

SpecRule == InitRule /\ [][NextRule]_vars

\* The match counts of a text, counted as sets of distinct phrases.
CountIn(text, lst) == Cardinality({kw \in Range(lst) : \E o \in text : o.p = kw})

\* C4: rule_based_score implements the exclusive-tier policy for every
\* combination of match counts (h, m, l, s): the base comes from the highest
\* matching tier only, the symptom bonus is 0.1 per symptom capped at 0.3, the
\* score is clamped to 1.0 and the category follows the 0.7 / 0.4 thresholds;
\* no match at all gives 0.0 and LOW.
C4_ExclusiveTiers ==
    rb.ret # None =>
        LET h == CountIn(rb.text, KeywordsOf(rb.dom).high)
            m == CountIn(rb.text, KeywordsOf(rb.dom).medium)
            l == CountIn(rb.text, KeywordsOf(rb.dom).low)
            s == CountIn(rb.text, SymptomsOf(rb.dom))
            base == CASE h > 0 -> 7000 + 1000 * h
                      [] h = 0 /\ m > 0 -> 4000 + 500 * m
                      [] h = 0 /\ m = 0 /\ l > 0 -> 1000 + 200 * l
                      [] OTHER -> 0
            expect == Min(10000, base + Min(3000, 1000 * s))
        IN  /\ rb.ret.score = expect
            /\ rb.ret.category = (CASE expect >= 7000 -> "HIGH"
                                    [] expect >= 4000 /\ expect < 7000 -> "MEDIUM"
                                    [] OTHER -> "LOW")
            /\ (h = 0 /\ m = 0 /\ l = 0 /\ s = 0) =>
                   (rb.ret.score = 0 /\ rb.ret.category = "LOW")

\* A scored text in which a high tier phrase and lower tier phrases match
\* together with symptoms.
C4_Witness ==
    /\ rb.ret # None
    /\ CountIn(rb.text, KeywordsOf(rb.dom).high) = 1
    /\ CountIn(rb.text, KeywordsOf(rb.dom).medium) = 2
    /\ CountIn(rb.text, KeywordsOf(rb.dom).low) = 1
    /\ CountIn(rb.text, SymptomsOf(rb.dom)) = 1
    /\ rb.ret.score = 9000

----------------------------------------------------------------------------
(* data_loader.chunk_text.  A text is a sequence of characters; a word is  *)
(* a non-empty sequence of non-whitespace characters.                      *)

IsSpace(c) == c \in {" ", "\n", "\t"}

\* str.split() with no argument: the maximal runs of non-whitespace characters,
\* in order.  A run starts where a non-space follows the start of the text or
\* a space, and ends where a non-space precedes the end of the text or a space.
Split(text) ==
    LET positions == [i \in 1..Len(text) |-> i]
        starts == SelectSeq(positions, LAMBDA i :
                      ~IsSpace(text[i]) /\ (i = 1 \/ IsSpace(text[i - 1])))
        stops  == SelectSeq(positions, LAMBDA i :
                      ~IsSpace(text[i]) /\ (i = Len(text) \/ IsSpace(text[i + 1])))
    IN  [k \in 1..Len(starts) |-> SubSeq(text, starts[k], stops[k])]

\* ' '.join(words)
RECURSIVE Join(_)
Join(words) ==
    IF Len(words) = 0 THEN <<>>
    ELSE IF Len(words) = 1 THEN words[1]
    ELSE LET mid == Len(words) \div 2
         IN  Join(SubSeq(words, 1, mid)) \o <<" ">>
             \o Join(SubSeq(words, mid + 1, Len(words)))

\* list(range(0, stop, step)) for step # 0
RangeFromZero(stop, step) ==
    IF step > 0 /\ stop > 0
    THEN [j \in 1..((stop + step - 1) \div step) |-> (j - 1) * step]
    ELSE <<>>

\* words[i:i + chunk_size] for i >= 0 and chunk_size >= 0
Slice(words, i, chunk_size) == SubSeq(words, i + 1, Min(i + chunk_size, Len(words)))

Returned(value) == [status |-> "returned", value |-> value]

Raised(error) == [status |-> "raised", error |-> error]

\* A plausible slip: the window advances by chunk_size, the overlap is lost.
ChunkStepNoOverlap(chunk_size, overlap) == chunk_size

\* The step of the range() in chunk_text.
ChunkStep(chunk_size, overlap) == chunk_size - overlap

chunk_text(text, chunk_size, overlap) ==
    LET words == Split(text)
        step  == ChunkStep(chunk_size, overlap)
    IN  IF step = 0
        THEN Raised("ValueError: range() arg 3 must not be zero")
        ELSE LET starts == RangeFromZero(Len(words), step)
                 all    == [j \in DOMAIN starts |->
                               Join(Slice(words, starts[j], chunk_size))]
             IN  Returned(SelectSeq(all, LAMBDA chunk : chunk # <<>>))

MaxTextLen == 7

MaxWindow == 3

Chars == {"a", "b", " "}

RECURSIVE TextsOfLen(_)
TextsOfLen(n) ==
    IF n = 0 THEN {<<>>}
    ELSE {Append(t, c) : t \in TextsOfLen(n - 1), c \in Chars}

ChunkTexts == UNION {TextsOfLen(n) : n \in 0..MaxTextLen}

InitChunk ==
    /\ \E text \in ChunkTexts, w \in 1..MaxWindow, o \in 0..(MaxWindow + 1) :
           ct = [text |-> text, chunk_size |-> w, overlap |-> o, ret |-> None]
    /\ rb = RbIdle
    /\ api_key = FALSE
    /\ PipelineAtRest

ChunkText ==
    /\ ct.ret = None
    /\ ct' = [ct EXCEPT !.ret = chunk_text(ct.text, ct.chunk_size, ct.overlap)]
    /\ UNCHANGED <<rb, api_key, pipeVars>>

NextChunk == ChunkText

SpecChunk == InitChunk /\ [][NextChunk]_vars

\* The words of the source text, read off character by character: word k
\* starts at the k-th position that holds a non-space character preceded by
\* the start of the text or a space.
WordStarts(text) ==
    {i \in DOMAIN text : ~IsSpace(text[i]) /\ (i = 1 \/ IsSpace(text[i - 1]))}

WordAt(text, i) ==
    LET stop == CHOOSE j \in i..Len(text) :
                    /\ \A k \in i..j : ~IsSpace(text[k])
                    /\ (j = Len(text) \/ IsSpace(text[j + 1]))
    IN  SubSeq(text, i, stop)

SourceWords(text) ==
    [k \in 1..Cardinality(WordStarts(text)) |->
        WordAt(text, CHOOSE i \in WordStarts(text) :
                         Cardinality({x \in WordStarts(text) : x < i}) = k - 1)]

RECURSIVE Concat(_)
Concat(seqs) == IF seqs = <<>> THEN <<>> ELSE Head(seqs) \o Concat(Tail(seqs))

\* C6: with 0 <= overlap < chunk_size, chunk_text returns, in source order,
\* chunk j = words[j*(W-O) : j*(W-O)+W]; every chunk has 1..W words; every
\* word lies in a chunk; the first chunk followed by every later chunk minus
\* its first O words is the source word sequence; no words, no chunks.
C6_ChunkingCoversInOrder ==
    (ct.ret # None /\ ct.overlap < ct.chunk_size) =>
        LET words == SourceWords(ct.text)
            n     == Len(words)
            W     == ct.chunk_size
            O     == ct.overlap
            cs    == ct.ret.value
            cw(j) == SourceWords(cs[j])
            rest(j) == IF j = 1 THEN cw(j)
                       ELSE SubSeq(cw(j), O + 1, Len(cw(j)))
        IN  /\ ct.ret.status = "returned"
            /\ \A j \in DOMAIN cs :
                   /\ cw(j) = SubSeq(words, (j - 1) * (W - O) + 1,
                                     Min((j - 1) * (W - O) + W, n))
                   /\ Len(cw(j)) >= 1
                   /\ Len(cw(j)) <= W
            /\ \A k \in 1..n : \E j \in DOMAIN cs :
                   /\ (j - 1) * (W - O) + 1 <= k
                   /\ k <= (j - 1) * (W - O) + Len(cw(j))
            /\ Concat([j \in DOMAIN cs |-> rest(j)]) = words
            /\ (n = 0 => cs = <<>>)

\* A returned chunking with overlap in which a late chunk is shorter than
\* the overlap.
C6_Witness ==
    /\ ct.ret # None
    /\ ct.overlap = 2
    /\ ct.chunk_size = 3
    /\ ct.ret.status = "returned"
    /\ Len(ct.ret.value) = 3
    /\ Len(SourceWords(ct.ret.value[3])) = 1

\* C7: chunk_text with overlap >= chunk_size fails fast with an error on
\* every text; it never returns a chunk list.
C7_OverlapTooLargeFailsFast ==
    (ct.ret # None /\ ct.overlap >= ct.chunk_size) => ct.ret.status = "raised"


----------------------------------------------------------------------------
(* Python values, and the generative-model capability.                     *)

Num(n) == [t |-> "num", v |-> n]

Str(x) == [t |-> "str", v |-> x]

Bool(b) == [t |-> "bool", v |-> b]

List(items) == [t |-> "list", v |-> items]

Dict(fields) == [t |-> "dict", v |-> fields]

\* d.get(key, default) on a dict
Get(d, key, default) == IF key \in DOMAIN d.v THEN d.v[key] ELSE default

\* A response text is a sequence of lines: an opening code fence marked json,
\* a bare code fence, prose, or the text of one JSON value.
FenceJsonLine == [t |-> "fence_json"]

FenceLine == [t |-> "fence"]

ProseLine == [t |-> "prose"]

JsonLine(value) == [t |-> "json", v |-> value]

\* What chat.completions.create and reading choices[0].message.content do:
\* raise, or give a text.
CallError(msg) == [kind |-> "error", msg |-> msg]

CallText(lines) == [kind |-> "text", content |-> lines]

\* re.sub of the fence pattern with flags=re.MULTILINE: a json fence at the
\* start of a line and a fence at the end of a line are removed.
StripFences(lines) ==
    SelectSeq(lines, LAMBDA ln : ln.t # "fence_json" /\ ln.t # "fence")

\* json.loads: the text must be exactly one JSON value.
JsonLoads(lines) ==
    IF Len(lines) = 1 /\ lines[1].t = "json"
    THEN Returned(lines[1].v)
    ELSE Raised("JSONDecodeError")

\* strip the fences, then json.loads
ParseModelJson(lines) == JsonLoads(StripFences(lines))

\* The dict returned when self.client is None.
UnknownAssessment ==
    Dict([score              |-> Num(0),
          category           |-> Str("UNKNOWN"),
          reasoning          |-> Str(<<"API key not configured">>),
          risk_factors       |-> List(<<>>),
          protective_factors |-> List(<<>>)])

\* A plausible slip: a failed call is given the middle score.
ErrorAssessmentNeutral(e) ==
    Dict([score              |-> Num(5000),
          category           |-> Str("ERROR"),
          reasoning          |-> Str(<<"Analysis error: ", e>>),
          risk_factors       |-> List(<<>>),
          protective_factors |-> List(<<>>),
          urgent_flags       |-> Bool(FALSE)])

\* The dict returned by the except branch.
ErrorAssessment(e) ==
    Dict([score              |-> Num(0),
          category           |-> Str("ERROR"),
          reasoning          |-> Str(<<"Analysis error: ", e>>),
          risk_factors       |-> List(<<>>),
          protective_factors |-> List(<<>>),
          urgent_flags       |-> Bool(FALSE)])

\* llm_based_score after the client check: the call and the parse, in the try.
llm_based_score_call(outcome) ==
    IF outcome.kind = "error" THEN ErrorAssessment(outcome.msg)
    ELSE LET parsed == ParseModelJson(outcome.content)
         IN  IF parsed.status = "raised" THEN ErrorAssessment(parsed.error)
             ELSE parsed.value

\* An assessment as the prompt asks for it.
JudgeObject(score) ==
    Dict([score              |-> score,
          category           |-> Str("MEDIUM"),
          reasoning          |-> Str(<<"assessment">>),
          risk_factors       |-> List(<<Str("concern")>>),
          protective_factors |-> List(<<>>),
          urgent_flags       |-> Bool(FALSE)])

JudgeObjectNoScore ==
    Dict([category     |-> Str("HIGH"),
          reasoning    |-> Str(<<"assessment">>),
          risk_factors |-> List(<<Str("concern")>>)])

JudgeObjectBadFactors ==
    Dict([score        |-> Num(5000),
          category     |-> Str("MEDIUM"),
          risk_factors |-> List(<<Num(1)>>)])

GridN == 6

\* Model scores in [0, 1]: GridN + 1 evenly spaced values, to 4 decimals.
ScoreGrid == {(10000 * i) \div GridN : i \in 0..GridN}

\* What the generative model may do on a judge call.
JudgeOutcomes ==
    {CallError("APITimeoutError")}
    \cup {CallText(<<JsonLine(JudgeObject(Num(x)))>>) : x \in ScoreGrid}
    \cup {CallText(<<FenceJsonLine, JsonLine(JudgeObject(Num(5000))), FenceLine>>),
          CallText(<<ProseLine>>),
          CallText(<<ProseLine, JsonLine(JudgeObject(Num(5000)))>>),
          CallText(<<JsonLine(JudgeObject(Num(15000)))>>),
          CallText(<<JsonLine(JudgeObject(Str("high")))>>),
          CallText(<<JsonLine(JudgeObjectNoScore)>>),
          CallText(<<JsonLine(JudgeObjectBadFactors)>>),
          CallText(<<JsonLine(List(<<>>))>>)}


----------------------------------------------------------------------------
(* RiskScorer.hybrid_score, step by step: the two rule scores, the judge   *)
(* call for HIV, the judge call for mental health, the fusion.             *)

MaxTierMatch == 2

MaxSymptomMatch == 2

\* Lower-case texts of one domain: no tier phrase, or 1..MaxTierMatch phrases of
\* one tier, with 0..MaxSymptomMatch symptom phrases.
DomainProfiles(dom) ==
    {PrefixText(dom, 0, 0, 0, s, FALSE) : s \in 0..MaxSymptomMatch}
    \cup {PrefixText(dom, n, 0, 0, s, FALSE) : n \in 1..MaxTierMatch, s \in 0..MaxSymptomMatch}
    \cup {PrefixText(dom, 0, n, 0, s, FALSE) : n \in 1..MaxTierMatch, s \in 0..MaxSymptomMatch}
    \cup {PrefixText(dom, 0, 0, n, s, FALSE) : n \in 1..MaxTierMatch, s \in 0..MaxSymptomMatch}

Conversations == {a \cup b : a \in DomainProfiles("HIV"), b \in DomainProfiles("MH")}

\* round(x, 3) of a value held in units of 1/100000, in units of 1/1000.  The
\* binary value of a decimal tie lies on either side of it, so a tie may round
\* either way.
Round3(x) ==
    LET q == x \div 100
        r == x % 100
    IN  IF r < 50 THEN {q} ELSE IF r > 50 THEN {q + 1} ELSE {q, q + 1}

\* llm.get('score', 0) * 0.6, in units of 1/100000
ModelOperand(assessment) ==
    IF assessment.t # "dict" THEN Raised("AttributeError")
    ELSE LET score == Get(assessment, "score", Num(0))
         IN  IF score.t = "num" THEN Returned(6 * score.v)
             ELSE Raised("TypeError")

\* A plausible slip: the two weights exchanged.
HybridBlendSwapped(rule_score, model_operand) ==
    (6 * rule_score) + ((4 * model_operand) \div 6)

\* (rule_score * 0.4) + (model operand), in units of 1/100000
HybridBlend(rule_score, model_operand) == (rule_score * 4) + model_operand

\* categorize(score) of hybrid_score on the blend in units of 1/100000; under:
\* the binary blend lies just under that decimal value.
Categorize(blend, under) == Threshold(IF under THEN blend - 1 ELSE blend, 100000)

\* One domain's entry of the dict hybrid_score returns.  The blend of a short
\* rule score and a zero model operand is 0.39999999999999997.
FusedEntry(final_score, blend, rule_rounded, rule_result, assessment) ==
    [final_score    |-> final_score,
     final_category |-> Categorize(blend, rule_result.short /\ blend = 4 * rule_result.score),
     rule_based     |-> [score    |-> rule_rounded,
                         category |-> rule_result.category,
                         details  |-> rule_result.details],
     llm_based      |-> assessment]

HybridScoreBegin(texts) ==
    /\ pc = "idle"
    /\ \E text \in texts :
        /\ conv' = text
        /\ rule' = [HIV |-> rule_based_score(text, HIV_RISK_KEYWORDS, HIV_SYMPTOM_PATTERNS),
                    MH  |-> rule_based_score(text, MENTAL_HEALTH_KEYWORDS, MH_SYMPTOM_PATTERNS)]
    /\ llm' = [HIV |-> None, MH |-> None]
    /\ risk_scores' = None
    /\ recommendations' = None
    /\ api_calls' = 0
    /\ queries' = 0
    /\ pc' = "judge_hiv"
    /\ UNCHANGED <<rb, ct, api_key, pdf, chunks, index, context, hits>>

\* RiskScorer.__init__: self.client is an OpenAI client if the key is set,
\* else None.
ScorerClient(key) == key

\* llm_based_score(text, risk_type), called from hybrid_score.
LlmBasedScore(dom, here, next, outcomes) ==
    /\ pc = here
    /\ IF ~ScorerClient(api_key)
       THEN /\ llm' = [llm EXCEPT ![dom] = [outcome |-> None, ret |-> UnknownAssessment]]
            /\ UNCHANGED api_calls
       ELSE \E outcome \in outcomes :
            /\ llm' = [llm EXCEPT ![dom] =
                          [outcome |-> outcome, ret |-> llm_based_score_call(outcome)]]
            /\ api_calls' = api_calls + 1
    /\ pc' = next
    /\ UNCHANGED <<rb, ct, api_key, conv, rule, risk_scores, recommendations,
                   queries, pdf, chunks, index, context, hits>>

\* Lines 169-201 of hybrid_score: blend, categorize, round, return.
HybridScoreFuse ==
    /\ pc = "fuse"
    /\ LET hiv_op == ModelOperand(llm.HIV.ret)
           mh_op  == ModelOperand(llm.MH.ret)
       IN  IF hiv_op.status = "raised"
           THEN risk_scores' = hiv_op /\ pc' = "raised"
           ELSE IF mh_op.status = "raised"
           THEN risk_scores' = mh_op /\ pc' = "raised"
           ELSE LET hiv_final_score == HybridBlend(rule.HIV.score, hiv_op.value)
                    mh_final_score  == HybridBlend(rule.MH.score, mh_op.value)
                IN  /\ \E hf \in Round3(hiv_final_score), mf \in Round3(mh_final_score),
                          hr \in Round3(10 * rule.HIV.score), mr \in Round3(10 * rule.MH.score) :
                        risk_scores' = Returned(
                            [hiv_risk |-> FusedEntry(hf, hiv_final_score, hr,
                                                     rule.HIV, llm.HIV.ret),
                             mental_health_risk |-> FusedEntry(mf, mh_final_score, mr,
                                                               rule.MH, llm.MH.ret)])
                    /\ pc' = "scored"
    /\ UNCHANGED <<rb, ct, api_key, conv, rule, llm, recommendations, api_calls,
                   queries, pdf, chunks, index, context, hits>>

InitHybrid ==
    /\ rb = RbIdle
    /\ ct = CtIdle
    /\ api_key \in BOOLEAN
    /\ PipelineAtRest

NextHybrid ==
    \/ HybridScoreBegin(Conversations)
    \/ LlmBasedScore("HIV", "judge_hiv", "judge_mh", JudgeOutcomes)
    \/ LlmBasedScore("MH", "judge_mh", "fuse", JudgeOutcomes)
    \/ HybridScoreFuse

SpecHybrid == InitHybrid /\ [][NextHybrid]_vars


\* The fields of a successful assessment, as the judge prompt lists them.
AssessmentFields ==
    {"score", "category", "reasoning", "risk_factors", "protective_factors",
     "urgent_flags"}

\* The judge call of a domain has returned.
Judged(dom) == llm # None /\ llm[dom] # None

\* The judge call of a domain took a failure path: the capability was never
\* configured, the call raised, or the response did not parse.
JudgeFailed(dom) ==
    /\ Judged(dom)
    /\ \/ llm[dom].outcome = None
       \/ llm[dom].outcome.kind = "error"
       \/ /\ llm[dom].outcome.kind = "text"
          /\ JsonLoads(StripFences(llm[dom].outcome.content)).status = "raised"

\* The cause of a failed judge call.
JudgeFailureCause(dom) ==
    IF llm[dom].outcome = None THEN "API key not configured"
    ELSE IF llm[dom].outcome.kind = "error" THEN llm[dom].outcome.msg
    ELSE "JSONDecodeError"

\* C2: on every failure path llm_based_score returns a degraded assessment
\* with the fields of a successful one: score 0.0, category ERROR (UNKNOWN
\* when the capability was never configured), a reasoning with the cause,
\* empty factor lists, and the urgent flag present and false.
C2_DegradedAssessmentShape ==
    \A dom \in Domains :
        JudgeFailed(dom) =>
            LET a == llm[dom].ret
            IN  /\ a.t = "dict"
                /\ DOMAIN a.v = AssessmentFields
                /\ a.v.score = Num(0)
                /\ a.v.category =
                       Str(IF llm[dom].outcome = None THEN "UNKNOWN" ELSE "ERROR")
                /\ a.v.reasoning.t = "str"
                /\ JudgeFailureCause(dom) \in Range(a.v.reasoning.v)
                /\ a.v.risk_factors = List(<<>>)
                /\ a.v.protective_factors = List(<<>>)
                /\ a.v.urgent_flags = Bool(FALSE)

\* The model score of a domain is present and a number in [0, 1].
ModelScoreInUnit(dom) ==
    /\ llm[dom].ret.t = "dict"
    /\ "score" \in DOMAIN llm[dom].ret.v
    /\ llm[dom].ret.v.score.t = "num"
    /\ llm[dom].ret.v.score.v >= 0
    /\ llm[dom].ret.v.score.v <= 10000

FusedOf(dom) ==
    IF dom = "HIV" THEN risk_scores.value.hiv_risk
    ELSE risk_scores.value.mental_health_risk

\* hybrid_score has returned its dict.
Scored == risk_scores # None /\ risk_scores.status = "returned"

\* C3: in every result of hybrid_score, for both domains, final_category is
\* the threshold function of the reported (rounded) final_score: HIGH iff
\* s >= 0.7, MEDIUM iff 0.4 <= s < 0.7, LOW iff s < 0.4.
C3_CategoryOfReportedScore ==
    Scored =>
        \A dom \in Domains :
            ModelScoreInUnit(dom) =>
                LET e == FusedOf(dom)
                IN  /\ (e.final_category = "HIGH") <=> (e.final_score >= 700)
                    /\ (e.final_category = "MEDIUM") <=>
                           (e.final_score >= 400 /\ e.final_score < 700)
                    /\ (e.final_category = "LOW") <=> (e.final_score < 400)

\* The model score hybrid_score reads: the score field, 0 when it is absent.
ModelScoreOrZero(dom) ==
    IF "score" \in DOMAIN llm[dom].ret.v THEN llm[dom].ret.v.score.v ELSE 0

\* C5: for each domain final_score = round(0.4 * rule_score + 0.6 *
\* model_score, 3), the model score being 0 when the assessment has no score
\* field; each domain's final_score is made of that domain's scores only.
\* (reported score in 1/1000, blend in 1/100000: the reported score is a
\* multiple of 0.001 nearest to the blend)
C5_FinalScoreIsRoundedBlend ==
    Scored =>
        \A dom \in Domains :
            (ModelScoreInUnit(dom) \/ "score" \notin DOMAIN llm[dom].ret.v) =>
                LET blend == 4 * rule[dom].score + 6 * ModelScoreOrZero(dom)
                    final == FusedOf(dom).final_score
                IN  /\ 100 * final - blend <= 50
                    /\ blend - 100 * final <= 50

\* A fused result where the HIV assessment has no score field, the mental
\* health one scores 0.6666, and the two rule scores differ.
C5_Witness ==
    /\ Scored
    /\ "score" \notin DOMAIN llm.HIV.ret.v
    /\ ModelScoreInUnit("MH")
    /\ llm.MH.ret.v.score.v = 6666
    /\ rule.HIV.score = 8000
    /\ rule.MH.score = 4500
    /\ FusedOf("HIV").final_score = 320
    /\ FusedOf("MH").final_score = 580

\* C10: every assessment llm_based_score returns has a numeric score in
\* [0, 1], whatever the response text was.
C10_ReturnedScoreInUnit ==
    \A dom \in Domains : Judged(dom) => ModelScoreInUnit(dom)

\* The assessment of a domain is a degraded one: category ERROR or UNKNOWN.
DegradedAssessment(dom) ==
    /\ Judged(dom)
    /\ llm[dom].ret.t = "dict"
    /\ "category" \in DOMAIN llm[dom].ret.v
    /\ llm[dom].ret.v.category \in {Str("ERROR"), Str("UNKNOWN")}

\* The rule score of a domain is exactly 1.0.
RuleScoreIsOne(dom) == rule[dom].score = 10000 /\ ~rule[dom].short

\* C12: in every result of hybrid_score, for a domain whose judge assessment
\* is degraded, final_score is round(0.4 * rule_score, 3) and at most 0.4,
\* final_category is never HIGH, whatever the rule-based category is, it is
\* MEDIUM only when the rule score is exactly 1.0, and LOW otherwise.
C12_DegradedJudgeCapsFinal ==
    Scored =>
        \A dom \in Domains :
            DegradedAssessment(dom) =>
                LET e == FusedOf(dom)
                IN  /\ e.final_score \in Round3(4 * rule[dom].score)
                    /\ e.final_score <= 400
                    /\ e.final_category # "HIGH"
                    /\ (e.final_category = "MEDIUM") <=> RuleScoreIsOne(dom)
                    /\ (~RuleScoreIsOne(dom)) => (e.final_category = "LOW")

\* Both judge calls failed on a text whose two rule categories are HIGH: the
\* HIV rule score is exactly 1.0 and its final category MEDIUM, the mental
\* health rule sum is 0.9999999999999999 and its final category LOW.
C12_Witness ==
    /\ Scored
    /\ DegradedAssessment("HIV")
    /\ DegradedAssessment("MH")
    /\ llm.HIV.ret.v.category = Str("ERROR")
    /\ rule.HIV.category = "HIGH"
    /\ RuleScoreIsOne("HIV")
    /\ FusedOf("HIV").final_score = 400
    /\ FusedOf("HIV").final_category = "MEDIUM"
    /\ rule.MH.category = "HIGH"
    /\ rule.MH.short
    /\ FusedOf("MH").final_score = 400
    /\ FusedOf("MH").final_category = "LOW"


----------------------------------------------------------------------------
(* RAGRecommender: the index over the guideline chunks and the queries.    *)
(* The embedding is a number (a one-dimensional vector); the embedding     *)
(* model and the document loader are capabilities of the environment.      *)

FallbackWordCount == 199

BuildChunkSize == 400

BuildOverlap == 50

\* _get_fallback_guidelines(): the built-in reference text, as its words.
FallbackGuidelines ==
    <<"\n">> \o Join([i \in 1..FallbackWordCount |-> <<"g">>]) \o <<"\n">>

\* embedder.encode of one text: a fixed function of the text.
Embed(text) == Cardinality({i \in DOMAIN text : text[i] = "h"}) % 5

IndexFlatL2(vectors) == [tag |-> "IndexFlatL2", vectors |-> vectors]

\* build_index(): self.chunks is assigned before the embeddings are made and
\* self.index after.  encode_ok: the embedding capability answers.
build_index(self_chunks, self_index, guidelines_pdf, encode_ok) ==
    LET loaded == guidelines_pdf
        guidelines_text == IF loaded = <<>> THEN FallbackGuidelines ELSE loaded
        new_chunks == chunk_text(guidelines_text, BuildChunkSize, BuildOverlap).value
    IN  IF ~encode_ok
        THEN [chunks |-> new_chunks, index |-> self_index,
              ret |-> Raised("embedding error")]
        ELSE IF new_chunks = <<>>
        THEN [chunks |-> new_chunks, index |-> self_index,
              ret |-> Raised("IndexError")]
        ELSE [chunks |-> new_chunks,
              index |-> IndexFlatL2([i \in DOMAIN new_chunks |-> Embed(new_chunks[i])]),
              ret |-> Returned(Len(new_chunks))]

\* index.search(query_embedding, top_k)[1][0]: the labels (from 0) of the
\* top_k nearest vectors by squared L2 distance, nearest first, the lower
\* label first among equals, and -1 where the index has no more vectors.
FaissSearch(vectors, q, top_k) ==
    LET dist(i) == (vectors[i] - q) * (vectors[i] - q)
        rank(i) == 1 + Cardinality({j \in DOMAIN vectors :
                                       \/ dist(j) < dist(i)
                                       \/ (dist(j) = dist(i) /\ j < i)})
    IN  [p \in 1..top_k |->
            IF p <= Len(vectors)
            THEN (CHOOSE i \in DOMAIN vectors : rank(i) = p) - 1
            ELSE -1]

\* lst[idx] of a non-empty Python list: a negative idx counts from the end.
PyIndex(lst, idx) == IF idx >= 0 THEN lst[idx + 1] ELSE lst[Len(lst) + idx + 1]

\* A plausible slip: the index is rebuilt on every query.
NeedsBuildAlways(self_index) == TRUE

\* if not self.index
NeedsBuild(self_index) == self_index = None

\* retrieve_relevant_chunks(query, top_k).  build_ok, encode_ok: the embedding
\* capability answers during the lazy build, and for the query.
retrieve_relevant_chunks(self_chunks, self_index, guidelines_pdf, query, top_k, build_ok, encode_ok) ==
    LET built == IF NeedsBuild(self_index)
                 THEN build_index(self_chunks, self_index, guidelines_pdf, build_ok)
                 ELSE [chunks |-> self_chunks, index |-> self_index,
                       ret |-> Returned(0)]
    IN  IF built.ret.status = "raised" THEN built
        ELSE IF ~encode_ok
        THEN [built EXCEPT !.ret = Raised("embedding error")]
        ELSE LET indices == FaissSearch(built.index.vectors, Embed(query), top_k)
             IN  [built EXCEPT !.ret =
                     Returned([p \in 1..top_k |-> PyIndex(built.chunks, indices[p])])]

\* A guidelines text of n words, every third one "h".
Doc(n) == Join([i \in 1..n |-> <<IF i % 3 = 0 THEN "h" ELSE "m">>])

\* What load_guidelines_pdf may give: nothing (no file, no text), blank
\* pages, and texts of two and of three chunks.
RetrievalDocs == {<<>>, <<" ">>, Doc(BuildChunkSize + 1),
                  Doc(2 * (BuildChunkSize - BuildOverlap) + 1)}

RetrievalQueries == {<<"m">>, <<"h">>, <<"h", " ", "h">>}

MaxK == 3

MaxQueries == 3

\* ConversationAnalyzer.__init__: self.recommender.build_index(), on the
\* recommender just constructed.
AnalyzerBuildIndex ==
    /\ pc = "idle"
    /\ index = None
    /\ chunks = <<>>
    /\ queries = 0
    /\ \E encode_ok \in BOOLEAN :
           LET b == build_index(chunks, index, pdf, encode_ok)
           IN  chunks' = b.chunks /\ index' = b.index
    /\ UNCHANGED <<rb, ct, api_key, pc, conv, rule, llm, risk_scores,
                   recommendations, api_calls, queries, pdf, context, hits>>

\* A retrieve_relevant_chunks(query, top_k) call from outside the analysis.
RetrieveRelevantChunks ==
    /\ pc = "idle"
    /\ queries < MaxQueries
    /\ \E query \in RetrievalQueries, top_k \in 1..MaxK,
          build_ok \in BOOLEAN, encode_ok \in BOOLEAN :
           LET r == retrieve_relevant_chunks(chunks, index, pdf, query, top_k,
                                             build_ok, encode_ok)
           IN  /\ chunks' = r.chunks
               /\ index' = r.index
               /\ hits' = IF r.ret.status = "returned"
                          THEN hits \cup {[query |-> query, top_k |-> top_k,
                                           result |-> r.ret.value]}
                          ELSE hits
    /\ queries' = queries + 1
    /\ UNCHANGED <<rb, ct, api_key, pc, conv, rule, llm, risk_scores,
                   recommendations, api_calls, pdf, context>>

\* The environment replaces the guidelines document.
GuidelinesChange ==
    /\ pc = "idle"
    /\ \E doc \in RetrievalDocs \ {pdf} : pdf' = doc
    /\ UNCHANGED <<rb, ct, api_key, pc, conv, rule, llm, risk_scores,
                   recommendations, api_calls, queries, chunks, index, context, hits>>

InitRetrieval ==
    /\ rb = RbIdle
    /\ ct = CtIdle
    /\ api_key = FALSE
    /\ pc = "idle"
    /\ conv = {}
    /\ rule = None
    /\ llm = None
    /\ risk_scores = None
    /\ recommendations = None
    /\ api_calls = 0
    /\ queries = 0
    /\ pdf \in RetrievalDocs
    /\ chunks = <<>>
    /\ index = None
    /\ context = <<>>
    /\ hits = {}

NextRetrieval ==
    \/ AnalyzerBuildIndex
    \/ RetrieveRelevantChunks
    \/ GuidelinesChange

SpecRetrieval == InitRetrieval /\ [][NextRetrieval]_vars


\* Two recorded results of the same query text and the same k are the same
\* ordered chunk list.
SameQuerySameResult ==
    \A a \in hits, b \in hits :
        (a.query = b.query /\ a.top_k = b.top_k) => a.result = b.result

\* A step of a retrieval query.
QueryStep == queries' = queries + 1

\* C8: over any sequence of retrieve_relevant_chunks calls on one
\* recommender, a query that returns has built the index if it was not built,
\* no query rebuilds a built index or changes its chunk list, and two queries
\* with the same text and the same k return the same ordered chunk list.
C8_LazyBuildOnceAndDeterministic ==
    /\ [](SameQuerySameResult /\ (hits # {} => index # None))
    /\ [][QueryStep =>
            /\ (index # None => (index' = index /\ chunks' = chunks))
            /\ (hits' # hits => index' # None)]_vars

\* Three queries have run, at least two returned, on an index of three
\* chunks, and the guidelines document has been replaced since the build.
C8_Witness ==
    /\ queries = 3
    /\ Cardinality(hits) >= 2
    /\ index # None
    /\ Len(chunks) = 3
    /\ pdf = <<>>

\* C11: every list retrieve_relevant_chunks(query, k) has returned is made of
\* the chunks at min(k, number of indexed chunks) pairwise-distinct positions
\* of the index, the nearest ones to the query by squared L2 distance, in
\* ascending distance order, the lower position first among equal distances;
\* with fewer than k chunks in the index no position is taken twice.
C11_DistinctNearestChunks ==
    \A h \in hits :
        LET n == Len(chunks)
            m == Min(h.top_k, n)
            d(i) == (index.vectors[i] - Embed(h.query)) * (index.vectors[i] - Embed(h.query))
            before(i, j) == d(i) < d(j) \/ (d(i) = d(j) /\ i < j)
        IN  /\ Len(h.result) = m
            /\ \E pos \in [1..m -> 1..n] :
                   /\ \A p \in 1..m, q \in 1..m : p < q => before(pos[p], pos[q])
                   /\ \A i \in (1..n) \ Range(pos) : \A p \in 1..m : before(pos[p], i)
                   /\ \A p \in 1..m : h.result[p] = chunks[pos[p]]


----------------------------------------------------------------------------
(* RAGRecommender.generate_recommendation, step by step, and the whole     *)
(* analyze_conversation: hybrid_score, then generate_recommendation.       *)

RecommendationFields == {"hiv_recommendation", "mh_recommendation", "integrated_plan"}

\* The dict returned when self.client is None.
NotConfiguredRecommendation ==
    Dict([hiv_recommendation |-> Str(<<"API not configured">>),
          mh_recommendation  |-> Str(<<"API not configured">>),
          integrated_plan    |-> Str(<<"API not configured">>)])

\* The dict returned by the except branch.
ErrorRecommendation(e) ==
    Dict([hiv_recommendation |-> Str(<<"Error generating recommendation: ", e>>),
          mh_recommendation  |-> Str(<<"Error generating recommendation: ", e>>),
          integrated_plan    |-> Str(<<"Error generating plan: ", e>>)])

\* A plausible slip: the recommender takes its client as always configured.
RecommenderClientAlways(key) == TRUE

\* RAGRecommender.__init__: self.client is an OpenAI client if the key is set,
\* else None.
RecommenderClient(key) == key

\* hiv_query and mh_query, built from the final category.
RetrievalQuery(dom, risk_assessment) ==
    IF dom = "HIV"
    THEN <<"HIV risk ", risk_assessment.hiv_risk.final_category,
           " testing PrEP treatment">>
    ELSE <<"mental health ", risk_assessment.mental_health_risk.final_category,
           " counseling treatment">>

\* top_k of the two queries of generate_recommendation.
RecommendTopK == 3

\* ', '.join(llm_based.get('risk_factors', ['None identified'])): a list of
\* strings or a string joins; anything else raises TypeError.
JoinRiskFactors(assessment) ==
    LET factors == Get(assessment, "risk_factors", List(<<Str("None identified")>>))
    IN  IF factors.t = "str" THEN Returned("joined")
        ELSE IF factors.t = "list" /\ \A i \in DOMAIN factors.v : factors.v[i].t = "str"
        THEN Returned("joined")
        ELSE Raised("TypeError")

\* The try block of generate_recommendation: the call and the parse.
generate_recommendation_call(outcome) ==
    IF outcome.kind = "error" THEN ErrorRecommendation(outcome.msg)
    ELSE LET parsed == ParseModelJson(outcome.content)
         IN  IF parsed.status = "raised" THEN ErrorRecommendation(parsed.error)
             ELSE parsed.value

RecommendationObject ==
    Dict([hiv_recommendation |-> Str(<<"test and offer PrEP">>),
          mh_recommendation  |-> Str(<<"refer for counselling">>),
          integrated_plan    |-> Str(<<"three steps">>)])

\* What the generative model may do on the recommendation call.
RecommendOutcomes ==
    {CallError("APIConnectionError"),
     CallText(<<JsonLine(RecommendationObject)>>),
     CallText(<<FenceJsonLine, JsonLine(RecommendationObject), FenceLine>>),
     CallText(<<ProseLine, JsonLine(RecommendationObject)>>),
     CallText(<<JsonLine(Dict([hiv_recommendation |-> Str(<<"test">>)]))>>),
     CallText(<<JsonLine(List(<<>>))>>)}

\* Lines 76-85: the client check, then the two query texts.
GenerateBegin ==
    /\ pc = "scored"
    /\ IF ~RecommenderClient(api_key)
       THEN /\ recommendations' = Returned(NotConfiguredRecommendation)
            /\ pc' = "done"
       ELSE /\ recommendations' = None
            /\ pc' = "retrieve_hiv"
    /\ context' = <<>>
    /\ UNCHANGED <<rb, ct, api_key, conv, rule, llm, risk_scores, api_calls,
                   queries, pdf, chunks, index, hits>>

\* Lines 87-88: one of the two retrieval queries.  An exception of the query
\* leaves generate_recommendation.
RetrieveContext(dom, here, next) ==
    /\ pc = here
    /\ \E build_ok \in BOOLEAN, encode_ok \in BOOLEAN :
           LET r == retrieve_relevant_chunks(chunks, index, pdf,
                        RetrievalQuery(dom, risk_scores.value), RecommendTopK,
                        build_ok, encode_ok)
           IN  /\ chunks' = r.chunks
               /\ index' = r.index
               /\ IF r.ret.status = "raised"
                  THEN /\ recommendations' = r.ret
                       /\ pc' = "raised"
                       /\ UNCHANGED context
                  ELSE /\ context' = Append(context, r.ret.value)
                       /\ pc' = next
                       /\ UNCHANGED recommendations
    /\ queries' = queries + 1
    /\ UNCHANGED <<rb, ct, api_key, conv, rule, llm, risk_scores, api_calls, pdf, hits>>

\* Lines 91-148: the prompt, the call, the parse.
GenerateCall(outcomes) ==
    /\ pc = "prompt"
    /\ LET hiv_factors == JoinRiskFactors(risk_scores.value.hiv_risk.llm_based)
           mh_factors  == JoinRiskFactors(risk_scores.value.mental_health_risk.llm_based)
       IN  IF hiv_factors.status = "raised" \/ mh_factors.status = "raised"
           THEN /\ recommendations' = Raised("TypeError")
                /\ pc' = "raised"
                /\ UNCHANGED api_calls
           ELSE \E outcome \in outcomes :
                /\ recommendations' = Returned(generate_recommendation_call(outcome))
                /\ api_calls' = api_calls + 1
                /\ pc' = "done"
    /\ UNCHANGED <<rb, ct, api_key, conv, rule, llm, risk_scores, queries, pdf,
                   chunks, index, context, hits>>

\* analyze_conversation returns its result dict; the analyzer is ready for
\* the next conversation of the dataset.
AnalyzeReturn ==
    /\ pc = "done"
    /\ pc' = "idle"
    /\ conv' = {}
    /\ rule' = None
    /\ llm' = None
    /\ risk_scores' = None
    /\ recommendations' = None
    /\ context' = <<>>
    /\ api_calls' = 0
    /\ queries' = 0
    /\ UNCHANGED <<rb, ct, api_key, pdf, chunks, index, hits>>

\* The conversations and the judge responses of the whole-analysis
\* specification: a text without any phrase, one with a high HIV phrase, one in
\* upper case with a low mental health phrase, one with phrases of both
\* domains; one response per kind.
CoreConversations ==
    {{},
     PrefixText("HIV", 1, 0, 0, 0, FALSE),
     PrefixText("MH", 0, 0, 1, 0, TRUE),
     PrefixText("HIV", 0, 1, 0, 1, FALSE) \cup PrefixText("MH", 2, 0, 0, 0, FALSE)}

CoreJudgeOutcomes ==
    {CallError("APITimeoutError"),
     CallText(<<JsonLine(JudgeObject(Num(0)))>>),
     CallText(<<JsonLine(JudgeObject(Num(10000)))>>),
     CallText(<<FenceJsonLine, JsonLine(JudgeObject(Num(5000))), FenceLine>>),
     CallText(<<ProseLine>>),
     CallText(<<JsonLine(JudgeObject(Str("high")))>>),
     CallText(<<JsonLine(JudgeObjectNoScore)>>),
     CallText(<<JsonLine(JudgeObjectBadFactors)>>),
     CallText(<<JsonLine(List(<<>>))>>)}

\* Guideline documents of the whole-analysis specification: none, blank
\* pages, a short text.
AnalysisDocs == {<<>>, <<" ">>, Doc(2)}

Init ==
    /\ rb = RbIdle
    /\ ct = CtIdle
    /\ api_key \in BOOLEAN
    /\ pc = "idle"
    /\ conv = {}
    /\ rule = None
    /\ llm = None
    /\ risk_scores = None
    /\ recommendations = None
    /\ api_calls = 0
    /\ queries = 0
    /\ pdf \in AnalysisDocs
    /\ chunks = <<>>
    /\ index = None
    /\ context = <<>>
    /\ hits = {}

Next ==
    \/ AnalyzerBuildIndex
    \/ HybridScoreBegin(CoreConversations)
    \/ LlmBasedScore("HIV", "judge_hiv", "judge_mh", CoreJudgeOutcomes)
    \/ LlmBasedScore("MH", "judge_mh", "fuse", CoreJudgeOutcomes)
    \/ HybridScoreFuse
    \/ GenerateBegin
    \/ RetrieveContext("HIV", "retrieve_hiv", "retrieve_mh")
    \/ RetrieveContext("MH", "retrieve_mh", "prompt")
    \/ GenerateCall(RecommendOutcomes)
    \/ AnalyzeReturn

Spec == Init /\ [][Next]_vars

\* generate_recommendation met a failure of the generative call or of the
\* parse of its response.
RecommendCallFailure(value) ==
    /\ value.t = "dict"
    /\ DOMAIN value.v = RecommendationFields
    /\ \A f \in RecommendationFields :
           /\ value.v[f].t = "str"
           /\ \E e \in {"APIConnectionError", "JSONDecodeError", "API not configured"} :
                  e \in Range(value.v[f].v)

\* C1: generate_recommendation never raises: whatever the fused assessment
\* and whichever capability fails (the generative call, the parse of its
\* response, the embedding of a query, the lazy index build), it returns a
\* Recommendation, which on a failure has the three fields stating the reason.
C1_RecommendationNeverRaises ==
    recommendations # None =>
        /\ recommendations.status = "returned"
        /\ (\/ pc = "done" /\ ~api_key
            \/ \E o \in RecommendOutcomes :
                   /\ recommendations.value = generate_recommendation_call(o)
                   /\ (o.kind = "error" \/ ParseModelJson(o.content).status = "raised"))
           => RecommendCallFailure(recommendations.value)

\* C9: when the generative-model capability is not configured, a run of
\* analyze_conversation makes no generative-model call and no retrieval
\* query: both judge calls return the UNKNOWN 'API key not configured'
\* assessment and generate_recommendation returns 'API not configured' in
\* all three fields.
C9_UnconfiguredShortCircuits ==
    ~api_key =>
        /\ api_calls = 0
        /\ queries = 0
        /\ pc \notin {"retrieve_hiv", "retrieve_mh", "prompt", "raised"}
        /\ \A dom \in Domains :
               Judged(dom) =>
                   /\ llm[dom].outcome = None
                   /\ llm[dom].ret.t = "dict"
                   /\ llm[dom].ret.v.score = Num(0)
                   /\ llm[dom].ret.v.category = Str("UNKNOWN")
                   /\ llm[dom].ret.v.reasoning = Str(<<"API key not configured">>)
        /\ pc = "done" =>
               /\ recommendations.status = "returned"
               /\ recommendations.value.t = "dict"
               /\ DOMAIN recommendations.value.v = RecommendationFields
               /\ \A f \in RecommendationFields :
                      recommendations.value.v[f] = Str(<<"API not configured">>)

\* An analysis without the capability has run to its end, on a text whose
\* HIV rule category is HIGH.
C9_Witness ==
    /\ ~api_key
    /\ pc = "done"
    /\ rule.HIV.category = "HIGH"
    /\ Judged("HIV")
    /\ Judged("MH")
    /\ recommendations = Returned(NotConfiguredRecommendation)


====
